---- MODULE Spec2Model ----
(***************************************************************************)
(* Iceberg_Table_Creator.py: a Streamlit script.  Every user interaction   *)
(* and every st.rerun() executes the whole script once (a "pass") against  *)
(* st.session_state, which survives between passes.  The model has one     *)
(* action per kind of pass.  The remote side (S3, IAM, the warehouse) is   *)
(* modelled by what the calls the script makes do to it.                   *)
(***************************************************************************)
EXTENDS Integers, Sequences, FiniteSets, TLC

VARIABLES
    session_state,   \* st.session_state: a function from the keys present to their values
    page,            \* the sidebar radio selection (widget state, no session key)
    sf_config_file,  \* what ~/.snowflake/connections.toml holds
    s3_buckets,      \* the set of bucket names that exist
    iam_policies,    \* policy name -> [arn, bucket] for the managed policies that exist
    iam_roles,       \* role name -> [arn, trust, attached] for the roles that exist
    sf_volumes,      \* external volume name -> [bucket, role_arn, ident]
    sf_next_id,      \* number of external ids the warehouse has issued so far
    sf_tables,       \* table name -> number of rows, for the Iceberg tables that exist
    log,             \* the calls made by the most recent pass, in order
    out,             \* how the most recent pass ended: "rerun", "stop" or "end"
    trigger,         \* what started the most recent pass
    history          \* the actions that succeeded since the last submission or reset

vars == <<session_state, page, sf_config_file, s3_buckets, iam_policies, iam_roles,
          sf_volumes, sf_next_id, sf_tables, log, out, trigger, history>>

\* ------------------------------------------------------------------ bounds

\* The warehouse issues at most this many external ids in a behaviour.
MaxIds == 2
\* At most this many tables are materialized in a behaviour.
MaxTables == 1

\* ------------------------------------------------------------------ inputs

Regions ==
    {"us-east-1", "us-east-2", "us-west-1", "us-west-2", "eu-west-1", "eu-west-2",
     "eu-west-3", "eu-central-1", "eu-north-1", "ap-southeast-1", "ap-southeast-2",
     "ap-northeast-1", "ap-northeast-2", "ap-south-1", "ca-central-1", "sa-east-1",
     "af-south-1", "me-south-1"}
BucketNames == {"bkt-a", "bkt-b"}
PolicyNames == {"policy-a"}
RoleNames == {"role-a"}
VolumeNames == {"VOLUME_A"}
\* The profile the connections file defines, and one it does not.
FileProfile == "DEMO"
ConnectionNames == {"DEMO", "OTHER"}

Pages == {"setup", "tables"}

\* The AWS account of the credentials in use, and the identities in trust policies.
Account == "123456789012"
RootArn == <<"root", Account>>
SnowflakeUserArn == <<"user", "snowflake">>
\* sts:ExternalId "temporary-placeholder"; the warehouse issues ids 1, 2, ...
Placeholder == 0

PolicyArnOf(account, name) == <<"policy", account, name>>
RoleArnOf(account, name) == <<"role", account, name>>

\* The parameter table of the profile in the connections file.
ProfileParams == [account |-> "acct", user |-> "user"]

\* ------------------------------------------------------------------ session state

Has(ss, k) == k \in DOMAIN ss
Get(ss, k, d) == IF k \in DOMAIN ss THEN ss[k] ELSE d
Put(ss, k, v) == [x \in (DOMAIN ss) \cup {k} |-> IF x = k THEN v ELSE ss[x]]
Del(ss, k) == [x \in (DOMAIN ss) \ {k} |-> ss[x]]
EmptySession == [x \in {} |-> 0]

\* ------------------------------------------------------------------ a pass

\* The state a pass works on, and what it has done so far.
World ==
    [ss |-> session_state, cfg |-> sf_config_file, s3 |-> s3_buckets,
     pol |-> iam_policies, rol |-> iam_roles, vol |-> sf_volumes, ids |-> sf_next_id,
     tbl |-> sf_tables, log |-> <<>>, out |-> "end", hist |-> history, exc |-> FALSE]

\* One call of the pass: which action made it (0: none), the call, its arguments and
\* the answer: "ok", "404" (no such bucket), "EntityAlreadyExists", or "error" (any
\* other exception).
Call(w, act, op, arg, res) ==
    [w EXCEPT !.log = Append(@, [act |-> act, op |-> op, arg |-> arg, res |-> res])]

\* st.stop() after st.error(...)
Stop(w) == [w EXCEPT !.out = "stop"]

\* Reading a key st.session_state does not hold raises inside the action's try block.
Missing(w, act, k) == Stop(Call(w, act, "session_state", <<k>>, "error"))

\* Advance without the st.rerun() that makes the next pass run.
Advance_no_rerun(w, n, ret) ==
    [w EXCEPT !.ss = Put(@, "current_step", n),
              !.hist = Append(@, [act |-> n, ret |-> ret])]

\* st.session_state.current_step = n ... st.rerun()
Advance(w, n, ret) ==
    [w EXCEPT !.ss = Put(@, "current_step", n),
              !.hist = Append(@, [act |-> n, ret |-> ret]),
              !.out = "rerun"]

NoIdent == [user |-> <<>>, ext |-> Placeholder]

\* ------------------------------------------------------------------ config loader

\* What the connections file can hold: no (or no parseable) file; the profile as
\* the table [connections.DEMO]; as the top-level table [DEMO]; or as the table
\* ["connections.DEMO"], whose one key contains the dot.
Layouts == {"absent", "nested", "toplevel", "quoted"}

\* toml.load(path) for a file that parses.  A top-level key is the tuple of the
\* parts of the key string between its dots.
TomlLoad(layout) ==
    CASE layout = "nested" ->
           [k \in {<<"connections">>} |-> [n \in {FileProfile} |-> ProfileParams]]
      [] layout = "toplevel" -> [k \in {<<FileProfile>>} |-> ProfileParams]
      [] layout = "quoted" -> [k \in {<<"connections", FileProfile>>} |-> ProfileParams]

\* The loader falling back to a profile whatever the file holds.
LoadConnection_fallback(layout, name) == [found |-> TRUE, params |-> ProfileParams]

\* Lines 182-196: [found, params]; found is FALSE when the try block raised.
LoadConnection(layout, name) ==
    IF layout = "absent"
    THEN [found |-> FALSE, params |-> ProfileParams]
    ELSE LET sf_config == TomlLoad(layout) IN
         IF <<"connections", name>> \in DOMAIN sf_config
         THEN IF /\ <<"connections">> \in DOMAIN sf_config
                 /\ name \in DOMAIN sf_config[<<"connections">>]
              THEN [found |-> TRUE, params |-> sf_config[<<"connections">>][name]]
              ELSE [found |-> FALSE, params |-> ProfileParams]
         ELSE IF <<name>> \in DOMAIN sf_config
         THEN [found |-> TRUE, params |-> sf_config[<<name>>]]
         ELSE [found |-> FALSE, params |-> ProfileParams]

\* ------------------------------------------------------------------ the six actions
\* Each takes the world and f, the call that raises in this pass ("none": no call).

SetupFaults ==
    {"none", "boto3.client", "head_bucket", "create_bucket", "create_policy",
     "get_caller_identity", "create_role", "get_role", "attach_role_policy",
     "connect", "execute", "no_storage_location", "update_assume_role_policy"}

\* CreateBucketConfiguration of the create call: none for us-east-1.
NoConstraint == "none"
\* The create call carrying the region whatever it is.
LocationConstraint_always(region) == region
LocationConstraint(region) == IF region = "us-east-1" THEN NoConstraint ELSE region

\* Step 1: Create S3 Bucket (current_step == 0)
Step1(w, f) ==
    LET b == w.ss["s3_bucket_name"]
        loc == LocationConstraint(w.ss["aws_region"])
    IN  IF f = "head_bucket"
        THEN Stop(Call(w, 1, "head_bucket", <<b>>, "error"))
        ELSE IF b \in w.s3
        THEN Advance(Call(w, 1, "head_bucket", <<b>>, "ok"), 1, NoIdent)
        ELSE LET w1 == Call(w, 1, "head_bucket", <<b>>, "404") IN
             IF f = "create_bucket"
             THEN Stop(Call(w1, 1, "create_bucket", <<b, loc>>, "error"))
             ELSE Advance([Call(w1, 1, "create_bucket", <<b, loc>>, "ok")
                              EXCEPT !.s3 = @ \cup {b}], 1, NoIdent)

\* Step 2 with every ClientError of create_policy raised again.
Step2_raises_on_existing(w, f) ==
    LET name == w.ss["iam_policy_name"]
        b == w.ss["s3_bucket_name"]
    IN  IF f = "create_policy"
        THEN Stop(Call(w, 2, "create_policy", <<name, b>>, "error"))
        ELSE IF name \notin DOMAIN w.pol
        THEN LET arn == PolicyArnOf(Account, name)
                 w1 == [Call(w, 2, "create_policy", <<name, b>>, "ok")
                           EXCEPT !.pol = name :> [arn |-> arn, bucket |-> b] @@ @]
             IN  Advance([w1 EXCEPT !.ss = Put(@, "policy_arn", arn)], 2, NoIdent)
        ELSE Stop(Call(w, 2, "create_policy", <<name, b>>, "EntityAlreadyExists"))

\* Step 2: Create IAM Policy (current_step == 1)
Step2(w, f) ==
    LET name == w.ss["iam_policy_name"]
        b == w.ss["s3_bucket_name"]
    IN  IF f = "create_policy"
        THEN Stop(Call(w, 2, "create_policy", <<name, b>>, "error"))
        ELSE IF name \notin DOMAIN w.pol
        THEN LET arn == PolicyArnOf(Account, name)
                 w1 == [Call(w, 2, "create_policy", <<name, b>>, "ok")
                           EXCEPT !.pol = name :> [arn |-> arn, bucket |-> b] @@ @]
             IN  Advance([w1 EXCEPT !.ss = Put(@, "policy_arn", arn)], 2, NoIdent)
        ELSE LET w1 == Call(w, 2, "create_policy", <<name, b>>, "EntityAlreadyExists") IN
             IF f = "get_caller_identity"
             THEN Stop(Call(w1, 2, "get_caller_identity", <<>>, "error"))
             ELSE LET w2 == Call(w1, 2, "get_caller_identity", <<>>, "ok")
                      arn == PolicyArnOf(Account, name)
                  IN  Advance([w2 EXCEPT !.ss = Put(@, "policy_arn", arn)], 2, NoIdent)

\* The success lines run although attach_role_policy raised.
AttachAndRecord_swallowed(w, f, name, role_arn) ==
    IF ~Has(w.ss, "policy_arn") THEN Missing(w, 3, "policy_arn")
    ELSE IF f = "attach_role_policy"
    THEN Advance([Call(w, 3, "attach_role_policy", <<name, w.ss["policy_arn"]>>, "error")
                     EXCEPT !.ss = Put(@, "role_arn", role_arn)], 3, NoIdent)
    ELSE LET w1 == [Call(w, 3, "attach_role_policy", <<name, w.ss["policy_arn"]>>, "ok")
                       EXCEPT !.rol[name].attached = @ \cup {w.ss["policy_arn"]}]
         IN  Advance([w1 EXCEPT !.ss = Put(@, "role_arn", role_arn)], 3, NoIdent)

\* attach_role_policy and the success lines after it (lines 343-354)
AttachAndRecord(w, f, name, role_arn) ==
    IF ~Has(w.ss, "policy_arn") THEN Missing(w, 3, "policy_arn")
    ELSE IF f = "attach_role_policy"
    THEN Stop(Call(w, 3, "attach_role_policy", <<name, w.ss["policy_arn"]>>, "error"))
    ELSE LET w1 == [Call(w, 3, "attach_role_policy", <<name, w.ss["policy_arn"]>>, "ok")
                       EXCEPT !.rol[name].attached = @ \cup {w.ss["policy_arn"]}]
         IN  Advance([w1 EXCEPT !.ss = Put(@, "role_arn", role_arn)], 3, NoIdent)

\* Step 3: Create IAM Role (current_step == 2)
Step3(w, f) ==
    LET name == w.ss["iam_role_name"]
        initial_trust_policy == [principal |-> RootArn, external_id |-> Placeholder]
    IN  IF f = "get_caller_identity"
        THEN Stop(Call(w, 3, "get_caller_identity", <<>>, "error"))
        ELSE LET w0 == Call(w, 3, "get_caller_identity", <<>>, "ok") IN
             IF f = "create_role"
             THEN Stop(Call(w0, 3, "create_role", <<name>>, "error"))
             ELSE IF name \notin DOMAIN w.rol
             THEN LET arn == RoleArnOf(Account, name)
                      w1 == [Call(w0, 3, "create_role", <<name>>, "ok")
                                EXCEPT !.rol = name :> [arn |-> arn,
                                                        trust |-> initial_trust_policy,
                                                        attached |-> {}] @@ @]
                  IN  AttachAndRecord(w1, f, name, arn)
             ELSE LET w1 == Call(w0, 3, "create_role", <<name>>, "EntityAlreadyExists") IN
                  IF f = "get_role"
                  THEN Stop(Call(w1, 3, "get_role", <<name>>, "error"))
                  ELSE AttachAndRecord(Call(w1, 3, "get_role", <<name>>, "ok"),
                                       f, name, w.rol[name].arn)

\* Step 4: Create Snowflake External Volume (current_step == 3).
\* CREATE OR REPLACE makes the warehouse issue a new external id.
Step4(w, f) ==
    LET v == w.ss["external_volume_name"] IN
    IF f = "connect"
    THEN Stop(Call(w, 4, "connect", <<>>, "error"))
    ELSE LET w0 == Call(w, 4, "connect", <<>>, "ok") IN
         IF ~Has(w.ss, "role_arn") THEN Missing(w0, 4, "role_arn")
         ELSE IF f = "execute"
         THEN Stop(Call(w0, 4, "CREATE OR REPLACE EXTERNAL VOLUME", <<v>>, "error"))
         ELSE LET volume == [bucket |-> w.ss["s3_bucket_name"],
                             role_arn |-> w.ss["role_arn"],
                             ident |-> [user |-> SnowflakeUserArn, ext |-> w.ids + 1]]
                  w1 == [Call(w0, 4, "CREATE OR REPLACE EXTERNAL VOLUME", <<v>>, "ok")
                            EXCEPT !.vol = [x \in (DOMAIN @) \cup {v} |->
                                               IF x = v THEN volume ELSE @[x]],
                                   !.ids = @ + 1]
              IN  Advance(Call(w1, 4, "close", <<>>, "ok"), 4, NoIdent)

\* Step 5 advancing without keeping what the description holds.
Step5_records_nothing(w, f) ==
    LET v == w.ss["external_volume_name"] IN
    IF f = "connect"
    THEN Stop(Call(w, 5, "connect", <<>>, "error"))
    ELSE LET w0 == Call(w, 5, "connect", <<>>, "ok") IN
         IF f = "execute" \/ v \notin DOMAIN w.vol
         THEN Stop(Call(w0, 5, "DESC EXTERNAL VOLUME", <<v>>, "error"))
         ELSE LET w1 == Call(w0, 5, "DESC EXTERNAL VOLUME", <<v>>, "ok") IN
              IF f = "no_storage_location"
              THEN Stop(Call(w1, 5, "find STORAGE_LOCATION_1", <<v>>, "error"))
              ELSE Advance(Call(w1, 5, "close", <<>>, "ok"), 5, w.vol[v].ident)

\* Step 5: Get Snowflake credentials (current_step == 4)
Step5(w, f) ==
    LET v == w.ss["external_volume_name"] IN
    IF f = "connect"
    THEN Stop(Call(w, 5, "connect", <<>>, "error"))
    ELSE LET w0 == Call(w, 5, "connect", <<>>, "ok") IN
         IF f = "execute" \/ v \notin DOMAIN w.vol
         THEN Stop(Call(w0, 5, "DESC EXTERNAL VOLUME", <<v>>, "error"))
         ELSE LET w1 == Call(w0, 5, "DESC EXTERNAL VOLUME", <<v>>, "ok") IN
              IF f = "no_storage_location"
              THEN Stop(Call(w1, 5, "find STORAGE_LOCATION_1", <<v>>, "error"))
              ELSE LET location_data == w.vol[v].ident
                       w2 == [w1 EXCEPT !.ss = Put(Put(@, "iam_user_arn", location_data.user),
                                                   "external_id", location_data.ext)]
                   IN  Advance(Call(w2, 5, "close", <<>>, "ok"), 5, location_data)

\* Step 6 writing the trust policy with the external id of the previous run.
Step6_previous_external_id(w, f, sf_conn_params) ==
    LET name == w.ss["iam_role_name"]
        updated_trust_policy == [principal |-> w.ss["iam_user_arn"],
                                 external_id |-> w.ss["external_id"] - 1]
    IN  IF ~Has(w.ss, "iam_user_arn") THEN Missing(w, 6, "iam_user_arn")
        ELSE IF ~Has(w.ss, "external_id") THEN Missing(w, 6, "external_id")
        ELSE IF f = "update_assume_role_policy" \/ name \notin DOMAIN w.rol
        THEN Stop(Call(w, 6, "update_assume_role_policy",
                       <<name, updated_trust_policy>>, "error"))
        ELSE LET w1 == [Call(w, 6, "update_assume_role_policy",
                             <<name, updated_trust_policy>>, "ok")
                           EXCEPT !.rol[name].trust = updated_trust_policy]
                 w2 == [w1 EXCEPT !.ss = Put(Put(@, "infrastructure_ready", TRUE),
                                             "sf_conn_params", sf_conn_params)]
             IN  Advance(w2, 6, NoIdent)

\* Step 6: Update IAM Role Trust Policy (current_step == 5)
Step6(w, f, sf_conn_params) ==
    LET name == w.ss["iam_role_name"]
        updated_trust_policy == [principal |-> w.ss["iam_user_arn"],
                                 external_id |-> w.ss["external_id"]]
    IN  IF ~Has(w.ss, "iam_user_arn") THEN Missing(w, 6, "iam_user_arn")
        ELSE IF ~Has(w.ss, "external_id") THEN Missing(w, 6, "external_id")
        ELSE IF f = "update_assume_role_policy" \/ name \notin DOMAIN w.rol
        THEN Stop(Call(w, 6, "update_assume_role_policy",
                       <<name, updated_trust_policy>>, "error"))
        ELSE LET w1 == [Call(w, 6, "update_assume_role_policy",
                             <<name, updated_trust_policy>>, "ok")
                           EXCEPT !.rol[name].trust = updated_trust_policy]
                 w2 == [w1 EXCEPT !.ss = Put(Put(@, "infrastructure_ready", TRUE),
                                             "sf_conn_params", sf_conn_params)]
             IN  Advance(w2, 6, NoIdent)

\* ------------------------------------------------------------------ Infrastructure Setup page

\* if setup_submitted: (lines 158-168)
SubmitHandler(w, form) ==
    LET s1 == Put(Put(w.ss, "setup_submitted", TRUE), "current_step", 0)
        s2 == Put(Put(s1, "aws_region", form.aws_region),
                  "s3_bucket_name", form.s3_bucket_name)
        s3 == Put(Put(s2, "iam_policy_name", form.iam_policy_name),
                  "iam_role_name", form.iam_role_name)
        s4 == Put(Put(s3, "external_volume_name", form.external_volume_name),
                  "snowflake_connection_name", form.snowflake_connection_name)
    IN  [w EXCEPT !.ss = s4, !.hist = <<>>]

\* The chain starting again when all six actions are done.
Dispatch_cyclic(w, f, current_step, sf_conn_params) ==
    IF current_step = 0 \/ current_step = 6 THEN Step1(w, f)
    ELSE IF current_step = 1 THEN Step2(w, f)
    ELSE IF current_step = 2 THEN Step3(w, f)
    ELSE IF current_step = 3 THEN Step4(w, f)
    ELSE IF current_step = 4 THEN Step5(w, f)
    ELSE IF current_step = 5 THEN Step6(w, f, sf_conn_params)
    ELSE w

\* The chain with the role created one step early.
Dispatch_shifted(w, f, current_step, sf_conn_params) ==
    IF current_step = 0 THEN Step1(w, f)
    ELSE IF current_step = 1 THEN Step3(w, f)
    ELSE IF current_step = 3 THEN Step4(w, f)
    ELSE IF current_step = 4 THEN Step5(w, f)
    ELSE IF current_step = 5 THEN Step6(w, f, sf_conn_params)
    ELSE w

\* The if/elif chain on the step read at the top of the pass (lines 207-470)
Dispatch(w, f, current_step, sf_conn_params) ==
    IF current_step = 0 THEN Step1(w, f)
    ELSE IF current_step = 1 THEN Step2(w, f)
    ELSE IF current_step = 2 THEN Step3(w, f)
    ELSE IF current_step = 3 THEN Step4(w, f)
    ELSE IF current_step = 4 THEN Step5(w, f)
    ELSE IF current_step = 5 THEN Step6(w, f, sf_conn_params)
    ELSE w

\* The sequencer going on to the next action in the same pass.
Sequencer_continues(w, f) ==
    IF ~Get(w.ss, "setup_submitted", FALSE)
    THEN w
    ELSE LET current_step == Get(w.ss, "current_step", 0)
             name == w.ss["snowflake_connection_name"]
             conn == LoadConnection(w.cfg, name)
         IN  IF ~conn.found
             THEN Stop(Call(w, 0, "load_connection", <<name>>, "error"))
             ELSE LET w0 == Call(w, 0, "load_connection", <<name>>, "ok") IN
                  IF f = "boto3.client"
                  THEN Stop(Call(w0, 0, "boto3.client", <<>>, "error"))
                  ELSE LET w1 == Dispatch(w0, f, current_step, conn.params) IN
                       IF w1.out = "rerun"
                       THEN Dispatch(w1, f, current_step + 1, conn.params)
                       ELSE w1

\* if st.session_state.get('setup_submitted'): (lines 171-485)
Sequencer(w, f) ==
    IF ~Get(w.ss, "setup_submitted", FALSE)
    THEN w
    ELSE LET current_step == Get(w.ss, "current_step", 0)
             name == w.ss["snowflake_connection_name"]
             conn == LoadConnection(w.cfg, name)
         IN  IF ~conn.found
             THEN Stop(Call(w, 0, "load_connection", <<name>>, "error"))
             ELSE LET w0 == Call(w, 0, "load_connection", <<name>>, "ok") IN
                  IF f = "boto3.client"
                  THEN Stop(Call(w0, 0, "boto3.client", <<>>, "error"))
                  ELSE Dispatch(w0, f, current_step, conn.params)

\* if page == "Infrastructure Setup": (lines 54-485)
SetupPage(w, setup_submitted, form, f) ==
    Sequencer(IF setup_submitted THEN SubmitHandler(w, form) ELSE w, f)

\* ------------------------------------------------------------------ text
\* A text is the sequence of its characters.

LowerLetters == <<"a", "b", "c", "d", "e", "f", "g", "h", "i", "j", "k", "l", "m", "n", "o", "p", "q", "r", "s", "t", "u", "v", "w", "x", "y", "z">>
UpperLetters == <<"A", "B", "C", "D", "E", "F", "G", "H", "I", "J", "K", "L", "M", "N", "O", "P", "Q", "R", "S", "T", "U", "V", "W", "X", "Y", "Z">>
Digits == {"0", "1", "2", "3", "4", "5", "6", "7", "8", "9"}
Whitespace == {" "}
Range(q) == {q[i] : i \in DOMAIN q}

\* str.upper() and str.lower(), character by character
UpperChar(c) ==
    IF \E i \in DOMAIN LowerLetters : LowerLetters[i] = c
    THEN UpperLetters[CHOOSE i \in DOMAIN LowerLetters : LowerLetters[i] = c]
    ELSE c
LowerChar(c) ==
    IF \E i \in DOMAIN UpperLetters : UpperLetters[i] = c
    THEN LowerLetters[CHOOSE i \in DOMAIN UpperLetters : UpperLetters[i] = c]
    ELSE c
Upper(t) == [i \in DOMAIN t |-> UpperChar(t[i])]
Lower(t) == [i \in DOMAIN t |-> LowerChar(t[i])]

\* str.strip(): drop the whitespace at both ends
RECURSIVE LStrip(_)
LStrip(t) == IF t # <<>> /\ Head(t) \in Whitespace THEN LStrip(Tail(t)) ELSE t
RECURSIVE RStrip(_)
RStrip(t) ==
    IF t # <<>> /\ t[Len(t)] \in Whitespace THEN RStrip(SubSeq(t, 1, Len(t) - 1)) ELSE t
Strip(t) == RStrip(LStrip(t))

\* re.match(r'^[A-Za-z_][A-Za-z0-9_]*$', t) on a single-line text
IdentStart == Range(LowerLetters) \cup Range(UpperLetters) \cup {"_"}
IdentPart == IdentStart \cup Digits
MatchesIdentifier(t) ==
    /\ t # <<>>
    /\ t[1] \in IdentStart
    /\ \A i \in 2..Len(t) : t[i] \in IdentPart

\* ------------------------------------------------------------------ Create Tables page

\* data_types (lines 605-613)
data_types ==
    <<"VARCHAR", "STRING", "TEXT", "INTEGER", "BIGINT", "SMALLINT", "TINYINT",
      "DECIMAL", "NUMERIC", "DOUBLE", "FLOAT", "REAL", "BOOLEAN",
      "DATE", "TIME", "DATETIME", "TIMESTAMP", "TIMESTAMP_LTZ", "TIMESTAMP_NTZ",
      "TIMESTAMP_TZ", "BINARY", "VARBINARY", "VARIANT", "OBJECT", "ARRAY">>

\* template_columns (lines 566-593)
StockData ==
    <<[name |-> <<"T", "I", "C", "K", "E", "R">>, type |-> "VARCHAR"],
      [name |-> <<"T", "R", "A", "D", "E", "_", "D", "A", "T", "E">>, type |-> "DATE"],
      [name |-> <<"O", "P", "E", "N", "_", "P", "R", "I", "C", "E">>, type |-> "DOUBLE"],
      [name |-> <<"H", "I", "G", "H", "_", "P", "R", "I", "C", "E">>, type |-> "DOUBLE"],
      [name |-> <<"L", "O", "W", "_", "P", "R", "I", "C", "E">>, type |-> "DOUBLE"],
      [name |-> <<"C", "L", "O", "S", "E", "_", "P", "R", "I", "C", "E">>, type |-> "DOUBLE"],
      [name |-> <<"V", "O", "L", "U", "M", "E">>, type |-> "BIGINT"]>>
UserData ==
    <<[name |-> <<"U", "S", "E", "R", "_", "I", "D">>, type |-> "INTEGER"],
      [name |-> <<"U", "S", "E", "R", "N", "A", "M", "E">>, type |-> "VARCHAR"],
      [name |-> <<"E", "M", "A", "I", "L">>, type |-> "VARCHAR"],
      [name |-> <<"C", "R", "E", "A", "T", "E", "D", "_", "D", "A", "T", "E">>, type |-> "TIMESTAMP"],
      [name |-> <<"I", "S", "_", "A", "C", "T", "I", "V", "E">>, type |-> "BOOLEAN"]>>
SalesData ==
    <<[name |-> <<"O", "R", "D", "E", "R", "_", "I", "D">>, type |-> "INTEGER"],
      [name |-> <<"C", "U", "S", "T", "O", "M", "E", "R", "_", "I", "D">>, type |-> "INTEGER"],
      [name |-> <<"P", "R", "O", "D", "U", "C", "T", "_", "N", "A", "M", "E">>, type |-> "VARCHAR"],
      [name |-> <<"Q", "U", "A", "N", "T", "I", "T", "Y">>, type |-> "INTEGER"],
      [name |-> <<"P", "R", "I", "C", "E">>, type |-> "DECIMAL"],
      [name |-> <<"O", "R", "D", "E", "R", "_", "D", "A", "T", "E">>, type |-> "DATE"]>>
TemplateColumns(template_choice) ==
    CASE template_choice = "Stock Data" -> StockData
      [] template_choice = "User Data" -> UserData
      [] template_choice = "Sales Data" -> SalesData
      [] OTHER -> <<>>
Templates == {"Custom", "Stock Data", "User Data", "Sales Data"}

\* custom_columns (lines 618-629): the rows whose name field is not empty
CustomColumns(rows) ==
    LET named == SelectSeq(rows, LAMBDA r : r.name # <<>>) IN
    [i \in DOMAIN named |-> [name |-> Strip(Upper(named[i].name)), type |-> named[i].type]]

\* columns_to_use (lines 596-629)
ColumnsToUse(form) ==
    IF form.template_choice # "Custom" /\ TemplateColumns(form.template_choice) # <<>>
    THEN TemplateColumns(form.template_choice)
    ELSE CustomColumns(form.custom)

\* for i, col in enumerate(columns_to_use): (lines 651-655)
RECURSIVE ColumnErrors(_)
ColumnErrors(columns) ==
    IF columns = <<>> THEN <<>>
    ELSE LET col == Head(columns)
             e == IF col.name = <<>> THEN <<"column name is required">>
                  ELSE IF ~MatchesIdentifier(col.name) THEN <<"column name is invalid">>
                  ELSE <<>>
         IN  e \o ColumnErrors(Tail(columns))

\* The validation without the loop over the columns.
ValidationErrors_no_column_check(table_name, columns_to_use) ==
    (IF table_name = <<>> THEN <<"Please enter a table name">> ELSE <<>>)
    \o (IF columns_to_use = <<>> THEN <<"define at least one column">> ELSE <<>>)
    \o (IF table_name # <<>> /\ ~MatchesIdentifier(table_name)
        THEN <<"table name is invalid">> ELSE <<>>)

\* validation_errors (lines 637-655)
ValidationErrors(table_name, columns_to_use) ==
    (IF table_name = <<>> THEN <<"Please enter a table name">> ELSE <<>>)
    \o (IF columns_to_use = <<>> THEN <<"define at least one column">> ELSE <<>>)
    \o (IF table_name # <<>> /\ ~MatchesIdentifier(table_name)
        THEN <<"table name is invalid">> ELSE <<>>)
    \o ColumnErrors(columns_to_use)

LowerName(n) ==
    CASE n = "DEMODB" -> "demodb"
      [] n = "PUBLIC" -> "public"

\* if create_submitted: (lines 635-671)
ProcessSubmission(w, form) ==
    LET columns_to_use == ColumnsToUse(form)
        validation_errors == ValidationErrors(form.table_name, columns_to_use)
    IN  IF validation_errors # <<>>
        THEN Call(w, 0, "validation", <<>>, "rejected")
        ELSE [Call(w, 0, "validation", <<>>, "ok")
                 EXCEPT !.ss = Put(Put(@, "table_to_create",
                    [database |-> form.database, schema |-> form.schema,
                     table_name |-> form.table_name, columns |-> columns_to_use,
                     full_name |-> <<form.database, form.schema, form.table_name>>,
                     base_location |-> <<LowerName(form.database), LowerName(form.schema),
                                         Lower(form.table_name)>>]),
                  "create_table_now", TRUE)]

\* Every column given the literal of the last branch.
SampleLiteral_untyped(type, i) == "'default_value'"

\* The literal of row i (0..4) for a column of the given type (lines 713-724)
SampleLiteral(type, i) ==
    IF type \in {"VARCHAR", "STRING", "TEXT"}
    THEN <<"'Sample_1'", "'Sample_2'", "'Sample_3'", "'Sample_4'", "'Sample_5'">>[i + 1]
    ELSE IF type \in {"INTEGER", "BIGINT", "SMALLINT", "TINYINT"}
    THEN <<"100", "101", "102", "103", "104">>[i + 1]
    ELSE IF type \in {"DOUBLE", "FLOAT", "REAL", "DECIMAL", "NUMERIC"}
    THEN <<"100.5", "101.5", "102.5", "103.5", "104.5">>[i + 1]
    ELSE IF type = "BOOLEAN"
    THEN IF i % 2 = 0 THEN "TRUE" ELSE "FALSE"
    ELSE IF type \in {"DATE", "DATETIME", "TIMESTAMP", "TIMESTAMP_LTZ", "TIMESTAMP_NTZ",
                      "TIMESTAMP_TZ"}
    THEN <<"'2024-01-15'", "'2024-01-16'", "'2024-01-17'", "'2024-01-18'",
           "'2024-01-19'">>[i + 1]
    ELSE "'default_value'"

\* sample_data (lines 709-725): five rows, one literal per column
SampleData(columns) ==
    [r \in 1..5 |-> [c \in DOMAIN columns |-> SampleLiteral(columns[c].type, r - 1)]]

TableFaults ==
    {"none", "show_connect", "SHOW DATABASES", "connect", "USE DATABASE", "USE SCHEMA",
     "CREATE OR REPLACE ICEBERG TABLE", "INSERT", "SELECT COUNT", "SELECT",
     "list_objects_v2"}

\* A call made although an earlier call of the block raised.
Try_ignores_exception(w, f, act, op, arg) ==
    IF f = op THEN [Call(w, act, op, arg, "error") EXCEPT !.exc = TRUE]
    ELSE Call(w, act, op, arg, "ok")

\* One call inside a try block: skipped once an exception is raised, raising when it
\* is the call that fails in this pass.  Calls of the database lookup carry 7, calls
\* of the table creation 8.
Try(w, f, act, op, arg) ==
    IF w.exc THEN w
    ELSE IF f = op THEN [Call(w, act, op, arg, "error") EXCEPT !.exc = TRUE]
    ELSE Call(w, act, op, arg, "ok")

\* Get available databases and schemas (lines 517-535); the exception is caught
LookupDatabases(w, f) ==
    IF ~Has(w.ss, "sf_conn_params") THEN w
    ELSE LET w1 == Try(w, IF f = "show_connect" THEN "connect" ELSE "none",
                       7, "connect", <<>>)
             w2 == Try(w1, f, 7, "SHOW DATABASES", <<>>)
             w3 == Try(w2, f, 7, "SHOW SCHEMAS", <<>>)
             w4 == Try(w3, f, 7, "close", <<>>)
         IN  [w4 EXCEPT !.exc = FALSE]

\* The tracking with the list replaced by the new record.
TrackAndClear_replaces(w, table_info) ==
    LET created_tables ==
            <<[name |-> table_info.full_name,
               base_location |-> table_info.base_location,
               columns |-> table_info.columns]>>
        s1 == Put(Put(w.ss, "created_tables", created_tables),
                  "tables_created_count", Len(created_tables))
    IN  [w EXCEPT !.ss = Del(Del(s1, "create_table_now"), "table_to_create")]

\* Track created table ... Clear creation state (lines 765-782)
TrackAndClear(w, table_info) ==
    LET created_tables ==
            Append(Get(w.ss, "created_tables", <<>>),
                   [name |-> table_info.full_name,
                    base_location |-> table_info.base_location,
                    columns |-> table_info.columns])
        s1 == Put(Put(w.ss, "created_tables", created_tables),
                  "tables_created_count", Len(created_tables))
    IN  [w EXCEPT !.ss = Del(Del(s1, "create_table_now"), "table_to_create")]

\* The creation recording the table whether or not a call raised.
ExecuteTableCreation_tracks_failures(w, f) ==
    LET table_info == w.ss["table_to_create"]
        t == table_info.table_name
        key == table_info.full_name
        w1 == IF Has(w.ss, "sf_conn_params")
              THEN Try(w, f, 8, "connect", <<>>)
              ELSE [Call(w, 8, "connect", <<>>, "error") EXCEPT !.exc = TRUE]
        w2 == Try(w1, f, 8, "USE DATABASE", <<table_info.database>>)
        w3 == Try(w2, f, 8, "USE SCHEMA", <<table_info.schema>>)
        w4 == Try(w3, f, 8, "CREATE OR REPLACE ICEBERG TABLE",
                  <<t, table_info.columns, w.ss["external_volume_name"],
                    table_info.base_location>>)
        w5 == IF w4.exc THEN w4
              ELSE [w4 EXCEPT !.tbl = [x \in (DOMAIN @) \cup {key} |->
                                          IF x = key THEN 0 ELSE @[x]]]
        w6 == Try(w5, f, 8, "INSERT", <<t, SampleData(table_info.columns)>>)
        w7 == IF w6.exc THEN w6 ELSE [w6 EXCEPT !.tbl[key] = @ + 5]
        w8 == Try(w7, f, 8, "SELECT COUNT", <<t>>)
        w9 == Try(w8, f, 8, "SELECT", <<t>>)
        w10 == Try(w9, f, 8, "list_objects_v2",
                   <<w.ss["s3_bucket_name"], table_info.base_location>>)
        w11 == Try(w10, "none", 8, "close", <<>>)
    IN  TrackAndClear([w11 EXCEPT !.exc = FALSE], table_info)

\* if st.session_state.get('create_table_now'): (lines 674-788)
ExecuteTableCreation(w, f) ==
    LET table_info == w.ss["table_to_create"]
        t == table_info.table_name
        key == table_info.full_name
        w1 == IF Has(w.ss, "sf_conn_params")
              THEN Try(w, f, 8, "connect", <<>>)
              ELSE [Call(w, 8, "connect", <<>>, "error") EXCEPT !.exc = TRUE]
        w2 == Try(w1, f, 8, "USE DATABASE", <<table_info.database>>)
        w3 == Try(w2, f, 8, "USE SCHEMA", <<table_info.schema>>)
        w4 == Try(w3, f, 8, "CREATE OR REPLACE ICEBERG TABLE",
                  <<t, table_info.columns, w.ss["external_volume_name"],
                    table_info.base_location>>)
        w5 == IF w4.exc THEN w4
              ELSE [w4 EXCEPT !.tbl = [x \in (DOMAIN @) \cup {key} |->
                                          IF x = key THEN 0 ELSE @[x]]]
        w6 == Try(w5, f, 8, "INSERT", <<t, SampleData(table_info.columns)>>)
        w7 == IF w6.exc THEN w6 ELSE [w6 EXCEPT !.tbl[key] = @ + 5]
        w8 == Try(w7, f, 8, "SELECT COUNT", <<t>>)
        w9 == Try(w8, f, 8, "SELECT", <<t>>)
        w10 == Try(w9, f, 8, "list_objects_v2",
                   <<w.ss["s3_bucket_name"], table_info.base_location>>)
        w11 == Try(w10, "none", 8, "close", <<>>)
    IN  IF w11.exc THEN [w11 EXCEPT !.exc = FALSE] ELSE TrackAndClear(w11, table_info)

\* The page without the readiness check at its top.
CreateTablesPage_unguarded(w, create_submitted, form, f) ==
    LET w1 == LookupDatabases(w, f)
        w2 == IF create_submitted THEN ProcessSubmission(w1, form) ELSE w1
    IN  IF Get(w2.ss, "create_table_now", FALSE)
        THEN ExecuteTableCreation(w2, f)
        ELSE w2

\* elif page == "Create Tables": (lines 490-804)
CreateTablesPage(w, create_submitted, form, f) ==
    IF ~Get(w.ss, "infrastructure_ready", FALSE)
    THEN Stop(w)
    ELSE LET w1 == LookupDatabases(w, f)
             w2 == IF create_submitted THEN ProcessSubmission(w1, form) ELSE w1
         IN  IF Get(w2.ss, "create_table_now", FALSE)
             THEN ExecuteTableCreation(w2, f)
             ELSE w2

\* ------------------------------------------------------------------ the script

\* The reset keeping the record of the created tables.
ResetSession_keeps_tables(w) ==
    [w EXCEPT !.ss = [k \in DOMAIN w.ss \cap {"created_tables", "tables_created_count"}
                         |-> w.ss[k]],
              !.hist = <<>>, !.out = "rerun"]

\* for key in list(st.session_state.keys()): del ...; st.rerun() (lines 43-47)
ResetSession(w) == [w EXCEPT !.ss = EmptySession, !.hist = <<>>, !.out = "rerun"]

\* One execution of the script without the reset button pressed (lines 54-804)
Script(w, pg, setup_submitted, setup_form, create_submitted, table_form, f) ==
    IF pg = "setup"
    THEN SetupPage(w, setup_submitted, setup_form, f)
    ELSE CreateTablesPage(w, create_submitted, table_form, f)

\* ------------------------------------------------------------------ form inputs

\* The most tables created in a behaviour of the whole-program specification.
MaxCreated == 1

TableForms(names, choices, rows) ==
    [database : {"DEMODB"}, schema : {"PUBLIC"}, table_name : names,
     template_choice : choices, custom : rows]

\* Table names typed: none, two identifiers, a leading digit, a hyphen, a leading blank.
NameInputs ==
    {<<>>, <<"t">>, <<"T", "_", "1">>, <<"1", "t">>, <<"t", "-", "x">>, <<" ", "t">>}
\* Custom column rows typed: no name; an identifier; an identifier between blanks; a
\* hyphen; a leading digit; a blank; rows with and without a name.
RowInputs ==
    {<<[name |-> <<>>, type |-> "VARCHAR"]>>,
     <<[name |-> <<"c">>, type |-> "TIME"]>>,
     <<[name |-> <<" ", "c", "_", "2", " ">>, type |-> "INTEGER"]>>,
     <<[name |-> <<"c", "-">>, type |-> "DOUBLE"]>>,
     <<[name |-> <<"2", "c">>, type |-> "BOOLEAN"]>>,
     <<[name |-> <<" ">>, type |-> "DATE"]>>,
     <<[name |-> <<"d">>, type |-> "BOOLEAN"], [name |-> <<>>, type |-> "TEXT"],
       [name |-> <<"e">>, type |-> "FLOAT"]>>}
AllTableForms == TableForms(NameInputs, {"Custom", "User Data"}, RowInputs)

\* The table forms of the whole-program specification: a valid and an invalid name.
FewTableForms ==
    TableForms({<<"t">>, <<"1", "t">>}, {"Sales Data"},
               {<<[name |-> <<>>, type |-> "VARCHAR"]>>})
FewTableFaults == {"none", "connect", "INSERT"}

\* The setup forms of the whole-program specification, and the one provisioned for
\* the table specification.
SetupForms ==
    [aws_region : {"us-west-2"}, s3_bucket_name : BucketNames,
     iam_policy_name : PolicyNames, iam_role_name : RoleNames,
     external_volume_name : VolumeNames, snowflake_connection_name : ConnectionNames]
OneSetupForm ==
    [aws_region : {"us-east-1"}, s3_bucket_name : {"bkt-a"},
     iam_policy_name : PolicyNames, iam_role_name : RoleNames,
     external_volume_name : VolumeNames, snowflake_connection_name : {FileProfile}]

\* What a pass is given for a form that was not submitted.
NoSetupForm == CHOOSE form \in SetupForms : TRUE
NoTableForm == CHOOSE form \in FewTableForms : TRUE

\* ------------------------------------------------------------------ actions

\* The state of the program's variables that a world describes.
Holds(w) ==
    /\ session_state = w.ss
    /\ sf_config_file = w.cfg
    /\ s3_buckets = w.s3
    /\ iam_policies = w.pol
    /\ iam_roles = w.rol
    /\ sf_volumes = w.vol
    /\ sf_next_id = w.ids
    /\ sf_tables = w.tbl
    /\ log = w.log
    /\ out = w.out
    /\ history = w.hist

\* A new session: nothing in st.session_state, nothing created remotely.
FreshWorld(layout) ==
    [ss |-> EmptySession, cfg |-> layout, s3 |-> {}, pol |-> [x \in {} |-> 0],
     rol |-> [x \in {} |-> 0], vol |-> [x \in {} |-> 0], ids |-> 0,
     tbl |-> [x \in {} |-> 0], log |-> <<>>, out |-> "end", hist |-> <<>>, exc |-> FALSE]

Init ==
    /\ \E layout \in Layouts : Holds(FreshWorld(layout))
    /\ page = "setup"
    /\ trigger = "init"

\* n more passes of the setup page, no call failing.
RECURSIVE Passes(_, _)
Passes(w, n) ==
    IF n = 0 THEN w
    ELSE Passes(Sequencer([w EXCEPT !.log = <<>>, !.out = "end"], "none"), n - 1)

\* A session in which the setup form was submitted once and all six actions ran.
ProvisionedWorld ==
    Passes(SetupPage(FreshWorld("toplevel"), TRUE, CHOOSE form \in OneSetupForm : TRUE,
                     "none"), 6)

TableInit ==
    /\ Holds(ProvisionedWorld)
    /\ page = "setup"
    /\ trigger = "pass"

\* The state the pass leaves, within the bounds.
Install(w, how, max_tables) ==
    /\ w.ids <= MaxIds
    /\ Len(Get(w.ss, "created_tables", <<>>)) <= max_tables
    /\ session_state' = w.ss
    /\ s3_buckets' = w.s3
    /\ iam_policies' = w.pol
    /\ iam_roles' = w.rol
    /\ sf_volumes' = w.vol
    /\ sf_next_id' = w.ids
    /\ sf_tables' = w.tbl
    /\ log' = w.log
    /\ out' = w.out
    /\ history' = w.hist
    /\ trigger' = how
    /\ UNCHANGED sf_config_file

\* The user presses "Reset All".
ResetAll ==
    /\ Install(ResetSession(World), "reset", MaxTables)
    /\ UNCHANGED page

\* The user submits the setup form.
SetupSubmit(forms, faults) ==
    /\ page = "setup"
    /\ \E form \in forms, f \in faults :
          Install(Script(World, page, TRUE, form, FALSE, NoTableForm, f), "submit",
                  MaxTables)
    /\ UNCHANGED page

\* The pass st.rerun() asked for.
Rerun(setup_faults, table_faults, max_tables) ==
    /\ out = "rerun"
    /\ \E f \in (IF page = "setup" THEN setup_faults ELSE table_faults) :
          Install(Script(World, page, FALSE, NoSetupForm, FALSE, NoTableForm, f), "pass",
                  max_tables)
    /\ UNCHANGED page

\* The user selects a page in the sidebar, or makes the script run again otherwise.
Reenter(setup_faults, table_faults, max_tables) ==
    \E pg \in Pages :
        \E f \in (IF pg = "setup" THEN setup_faults ELSE table_faults) :
            /\ Install(Script(World, pg, FALSE, NoSetupForm, FALSE, NoTableForm, f),
                       "pass", max_tables)
            /\ page' = pg

\* The user submits the table form.
TableSubmit(forms, faults, max_tables) ==
    /\ page = "tables"
    /\ \E form \in forms, f \in faults :
          Install(Script(World, page, FALSE, NoSetupForm, TRUE, form, f), "create",
                  max_tables)
    /\ UNCHANGED page

\* The whole program: every setup input and vendor failure, a few table forms.
Next ==
    \/ ResetAll
    \/ SetupSubmit(SetupForms, SetupFaults)
    \/ Rerun(SetupFaults, FewTableFaults, MaxCreated)
    \/ Reenter(SetupFaults, FewTableFaults, MaxCreated)
    \/ TableSubmit(FewTableForms, {"none", "connect"}, MaxCreated)

Spec == Init /\ [][Next]_vars

\* The program after a complete setup, the setup form not submitted again: every
\* table form and every failure of the table creation.
TableNext ==
    \/ ResetAll
    \/ Rerun({"none"}, TableFaults, MaxTables)
    \/ Reenter({"none"}, TableFaults, MaxTables)
    \/ TableSubmit(AllTableForms, {"none", "connect"}, MaxTables)

TableSpec == TableInit /\ [][TableNext]_vars

\* A new session with what earlier sessions left in the cloud account; the profile
\* is in the connections file where the loader finds it.
LeftPolicies ==
    {[x \in {} |-> 0]}
    \cup {[x \in {"policy-a"} |-> [arn |-> PolicyArnOf(Account, "policy-a"), bucket |-> b]] :
            b \in BucketNames}
LeftRoles ==
    {[x \in {} |-> 0],
     [x \in {"role-a"} |-> [arn |-> RoleArnOf(Account, "role-a"),
                            trust |-> [principal |-> RootArn, external_id |-> Placeholder],
                            attached |-> {}]]}
LiveInit ==
    /\ \E s3 \in SUBSET BucketNames, pol \in LeftPolicies, rol \in LeftRoles :
          Holds([FreshWorld("toplevel") EXCEPT !.s3 = s3, !.pol = pol, !.rol = rol])
    /\ page = "setup"
    /\ trigger = "init"

LiveForms ==
    [aws_region : Regions, s3_bucket_name : BucketNames, iam_policy_name : PolicyNames,
     iam_role_name : RoleNames, external_volume_name : VolumeNames,
     snowflake_connection_name : {FileProfile}]

\* The setup form is submitted once; after that only st.rerun() makes the script run,
\* and no call fails.
FirstSubmit ==
    /\ ~Get(session_state, "setup_submitted", FALSE)
    /\ SetupSubmit(LiveForms, {"none"})
AutoRerun == Rerun({"none"}, {"none"}, MaxCreated)

LiveNext ==
    \/ FirstSubmit
    \/ AutoRerun

\* Streamlit runs the script again whenever st.rerun() was called.
LiveSpec == LiveInit /\ [][LiveNext]_vars /\ WF_vars(AutoRerun)

\* ================================================================== claims

StepOf(ss) == Get(ss, "current_step", 0)
Ready == Get(session_state, "infrastructure_ready", FALSE)
\* The entries of a log made by the six provisioning actions.
ActionEntries(lg) == {i \in DOMAIN lg : lg[i].act \in 1..6}
Errors(lg) == {i \in DOMAIN lg : lg[i].res = "error"}

\* C1 (as stated): except for Reset All, a pass leaves current_step as it was or
\* raises it by exactly 1, the latter only with one more successful action.
C1_StepNeverDecreases ==
    [][trigger' # "reset" =>
         \/ StepOf(session_state') = StepOf(session_state)
         \/ /\ StepOf(session_state') = StepOf(session_state) + 1
            /\ history' = Append(history, history'[Len(history')])]_vars

\* C2: a call of action N is made only when the actions 1..N-1 succeeded, in this
\* order, since the last setup submission or reset.
C2_ActionsInOrder ==
    \A i \in ActionEntries(log) :
        /\ Len(history) >= log[i].act - 1
        /\ \A k \in 1..(log[i].act - 1) : history[k].act = k

\* Action 6 has run after a failure-and-resubmission detour.
C2_Witness ==
    /\ \E i \in DOMAIN log : log[i].act = 6 /\ log[i].res = "ok"
    /\ sf_next_id = 2

\* C3: update_assume_role_policy is called only after actions 4 and 5 succeeded in
\* the current run, and with the identity and external id that DESC returned.
C3_TrustAfterDescribe ==
    \A i \in DOMAIN log :
        log[i].op = "update_assume_role_policy" =>
            /\ Len(history) >= 5
            /\ history[4].act = 4
            /\ history[5].act = 5
            /\ log[i].arg[2] = [principal |-> history[5].ret.user,
                                external_id |-> history[5].ret.ext]

\* The trust policy was written in a second provisioning run.
C3_Witness ==
    /\ \E i \in DOMAIN log : log[i].op = "update_assume_role_policy" /\ log[i].res = "ok"
    /\ session_state["external_id"] = 2

\* C4: no call of the table creation (its connection included) is made in a pass
\* while infrastructure_ready is not set.
C4_NoTableWorkUnlessReady ==
    \A i \in DOMAIN log : log[i].act = 8 => Ready

\* Tables were created, Reset All was pressed, and the Create Tables page stopped
\* at its readiness check without a call.
C4_Witness ==
    /\ page = "tables"
    /\ ~Ready
    /\ out = "stop"
    /\ log = <<>>
    /\ DOMAIN sf_tables # {}

\* A name made of letters, digits and underscores only, not beginning with a digit.
IsIdentifier(t) ==
    /\ Len(t) >= 1
    /\ \A i \in 1..Len(t) :
          t[i] \in Range(LowerLetters) \cup Range(UpperLetters) \cup Digits \cup {"_"}
    /\ t[1] \notin Digits
WellFormed(table_name, columns) ==
    /\ IsIdentifier(table_name)
    /\ Len(columns) >= 1
    /\ \A i \in 1..Len(columns) : IsIdentifier(columns[i].name)

\* C5: no table_to_create is stored, and no CREATE or INSERT statement is executed,
\* with a table or column name that is not an identifier or with no column.
C5_OnlyValidatedTables ==
    /\ Has(session_state, "table_to_create") =>
          WellFormed(session_state["table_to_create"].table_name,
                     session_state["table_to_create"].columns)
    /\ \A i \in DOMAIN log :
          /\ log[i].op = "CREATE OR REPLACE ICEBERG TABLE" =>
                WellFormed(log[i].arg[1], log[i].arg[2])
          /\ log[i].op = "INSERT" => IsIdentifier(log[i].arg[1])

\* A table form was submitted and rejected: nothing stored, no call of the creation.
C5_Witness ==
    /\ trigger = "create"
    /\ Ready
    /\ ~Has(session_state, "table_to_create")
    /\ \A i \in DOMAIN log : log[i].act # 8
    /\ Get(session_state, "created_tables", <<>>) = <<>>

\* The answers of the vendor in one pass to the call op.
Answers(lg, op) == {lg[i].res : i \in {j \in DOMAIN lg : lg[j].op = op}}
\* The pass ended with action n recorded as done.
Succeeded(lg, ss, o, n) == Errors(lg) = {} => (o = "rerun" /\ StepOf(ss) = n)

\* C6: a pass of action 1, 2 or 3 that finds its resource existing creates nothing,
\* fails with no duplicate-resource error, and records the ARN of the existing
\* resource, which is the one recorded when the resource was created.
C6_ProvisionerIdempotent ==
    [][/\ "ok" \in Answers(log', "head_bucket") =>
             /\ s3_buckets' = s3_buckets
             /\ Answers(log', "create_bucket") = {}
             /\ Succeeded(log', session_state', out', 1)
       /\ "EntityAlreadyExists" \in Answers(log', "create_policy") =>
             /\ iam_policies' = iam_policies
             /\ Succeeded(log', session_state', out', 2)
             /\ Errors(log') = {} =>
                   session_state'["policy_arn"] =
                       iam_policies[session_state'["iam_policy_name"]].arn
       /\ "EntityAlreadyExists" \in Answers(log', "create_role") =>
             /\ DOMAIN iam_roles' = DOMAIN iam_roles
             /\ \A r \in DOMAIN iam_roles : iam_roles'[r].arn = iam_roles[r].arn
             /\ Succeeded(log', session_state', out', 3)
             /\ Errors(log') = {} =>
                   /\ session_state'["role_arn"] =
                          iam_roles[session_state'["iam_role_name"]].arn
                   /\ session_state'["policy_arn"] \in
                          iam_roles'[session_state'["iam_role_name"]].attached
       /\ "ok" \in Answers(log', "create_policy") =>
             session_state'["policy_arn"] =
                 iam_policies'[session_state'["iam_policy_name"]].arn
       /\ ("ok" \in Answers(log', "create_role") /\ Errors(log') = {}) =>
             session_state'["role_arn"] = iam_roles'[session_state'["iam_role_name"]].arn
      ]_vars

\* The second run of actions 1-3 ended: the role existed, the policy was attached
\* again, and the step is 3.
C6_Witness ==
    /\ sf_next_id >= 1
    /\ "EntityAlreadyExists" \in Answers(log, "create_role")
    /\ "ok" \in Answers(log, "attach_role_policy")
    /\ StepOf(session_state) = 3
    /\ Len(history) = 3

C7_Done ==
    /\ StepOf(session_state) = 6
    /\ Ready
    /\ Has(session_state, "role_arn")
    /\ Has(session_state, "external_id")
    /\ Has(session_state, "iam_user_arn")

ActionFailed(lg) == \E i \in ActionEntries(lg) : lg[i].res = "error"
FirstAction(lg) == lg[CHOOSE i \in ActionEntries(lg) : \A j \in ActionEntries(lg) : i <= j].act

\* C8 (as stated): after an action failed at stored step k, the next submission of
\* the setup form or re-entry of the page attempts action k+1 first.
C8_ResumesAtStoredStep ==
    [][(/\ page = "setup"
        /\ ActionFailed(log)
        /\ page' = "setup"
        /\ trigger' \in {"submit", "pass"}
        /\ ActionEntries(log') # {})
       => FirstAction(log') = StepOf(session_state) + 1]_vars

\* Buckets, policies, roles and volumes of before the pass are still there.
NothingRolledBack ==
    /\ s3_buckets \subseteq s3_buckets'
    /\ DOMAIN iam_policies \subseteq DOMAIN iam_policies'
    /\ DOMAIN iam_roles \subseteq DOMAIN iam_roles'
    /\ DOMAIN sf_volumes \subseteq DOMAIN sf_volumes'
    /\ \A r \in DOMAIN iam_roles : iam_roles[r].attached \subseteq iam_roles'[r].attached

\* C9: a pass in which a provisioning action fails stops there: the step stays the
\* one the sequencer read (the stored one; 0 when the pass handled a submission),
\* no success is recorded, the failed call is the last call, all calls belong to
\* one action, no call is made twice, and nothing remote is removed.
C9_FailureHalts ==
    [][ActionFailed(log') =>
         /\ out' = "stop"
         /\ StepOf(session_state') = IF trigger' = "submit" THEN 0
                                     ELSE StepOf(session_state)
         /\ history' = IF trigger' = "submit" THEN <<>> ELSE history
         /\ log'[Len(log')].res = "error"
         /\ Cardinality(Errors(log')) = 1
         /\ \A i \in ActionEntries(log') : log'[i].act = StepOf(session_state') + 1
         /\ \A i, j \in DOMAIN log' : (i # j /\ log'[i].act # 0) => log'[i].op # log'[j].op
         /\ NothingRolledBack]_vars

\* attach_role_policy failed for a role that exists: the step is still 2 and the
\* role is still there.
C9_Witness ==
    /\ log # <<>>
    /\ log[Len(log)].op = "attach_role_policy"
    /\ log[Len(log)].res = "error"
    /\ StepOf(session_state) = 2
    /\ session_state["iam_role_name"] \in DOMAIN iam_roles
    /\ out = "stop"

ProvisioningFields ==
    {"current_step", "s3_bucket_name", "aws_region", "iam_policy_name", "policy_arn",
     "iam_role_name", "role_arn", "external_volume_name", "snowflake_connection_name",
     "iam_user_arn", "external_id", "infrastructure_ready"}

\* C10 (as stated): once the step is 6 and infrastructure_ready is set, nothing but
\* Reset All changes a field of the provisioning state.
C10_ImmutableOnceReady ==
    [][(Ready /\ StepOf(session_state) = 6 /\ trigger' # "reset") =>
         \A k \in ProvisioningFields :
             /\ Has(session_state', k)
             /\ session_state'[k] = session_state[k]]_vars

\* C11 (as stated): a profile that the connections file holds, as the table
\* [connections.NAME] or as the top-level table [NAME], is found by the loader, and
\* the parameters kept for the table creation are the profile's.
C11_BothLayoutsResolve ==
    /\ \A i \in DOMAIN log :
          (/\ log[i].op = "load_connection"
           /\ log[i].arg = <<FileProfile>>
           /\ sf_config_file \in {"nested", "toplevel"})
          => log[i].res = "ok"
    /\ Has(session_state, "sf_conn_params") =>
          session_state["sf_conn_params"] = ProfileParams

\* C12: a create_bucket call follows a probe answered 404 and carries no location
\* constraint for us-east-1, the region itself for every other region; a probe
\* that finds the bucket is followed by no create call.
C12_RegionConstraint ==
    /\ \A i \in DOMAIN log :
          log[i].op = "create_bucket" =>
              /\ i > 1
              /\ log[i - 1].op = "head_bucket"
              /\ log[i - 1].res = "404"
              /\ log[i].arg[1] = session_state["s3_bucket_name"]
              /\ session_state["aws_region"] = "us-east-1" => log[i].arg[2] = NoConstraint
              /\ session_state["aws_region"] # "us-east-1" =>
                    log[i].arg[2] = session_state["aws_region"]
    /\ "ok" \in Answers(log, "head_bucket") => Answers(log, "create_bucket") = {}

\* A bucket was created in us-east-1.
C12_Witness ==
    /\ "ok" \in Answers(log, "create_bucket")
    /\ session_state["aws_region"] = "us-east-1"
    /\ session_state["s3_bucket_name"] \in s3_buckets

\* The calls of the table creation made in a pass.
CreationEntries(lg) == {i \in DOMAIN lg : lg[i].act = 8}
Pending(ss) == Has(ss, "create_table_now") \/ Has(ss, "table_to_create")

\* C13 (as stated): in a pass whose table submission has a validation error, no
\* call of the table creation is made.
C13_RejectedRunsNothing ==
    "rejected" \in Answers(log, "validation") => CreationEntries(log) = {}

\* C14 (as stated): once a pass has attempted the table creation, nothing is left
\* pending, and a pass without a table submission attempts no table creation.
C14_ConsumedOnce ==
    [][/\ CreationEntries(log') # {} => ~Pending(session_state')
       /\ trigger' # "create" => CreationEntries(log') = {}]_vars

\* The program after a complete setup with the setup form submitted again, tables
\* created one after another, and the INSERT or the connection failing.
MaxTracked == 2
TrackForms ==
    TableForms({<<"t">>, <<"u">>}, {"Sales Data"}, {<<[name |-> <<>>, type |-> "VARCHAR"]>>})
TrackNext ==
    \/ ResetAll
    \/ SetupSubmit(OneSetupForm, {"none"})
    \/ Rerun({"none"}, {"none", "INSERT"}, MaxTracked)
    \/ Reenter({"none"}, {"none", "INSERT"}, MaxTracked)
    \/ TableSubmit(TrackForms, {"none", "connect"}, MaxTracked)

TrackSpec == TableInit /\ [][TrackNext]_vars

Created(ss) == Get(ss, "created_tables", <<>>)
\* The table creation of the pass ran to its end.
Completed(lg) ==
    /\ \E i \in CreationEntries(lg) : lg[i].op = "close"
    /\ \A i \in CreationEntries(lg) : lg[i].res = "ok"

\* C15: except for Reset All, a pass leaves created_tables as it was, or, when its
\* table creation ran to its end, with one record more at the end; and
\* tables_created_count is the length of created_tables.
C15_CreatedAppendOnly ==
    [][/\ trigger' # "reset" =>
             IF Completed(log')
             THEN /\ Len(Created(session_state')) = Len(Created(session_state)) + 1
                  /\ SubSeq(Created(session_state'), 1, Len(Created(session_state)))
                         = Created(session_state)
             ELSE Created(session_state') = Created(session_state)
       /\ Get(session_state', "tables_created_count", 0) = Len(Created(session_state'))
      ]_vars

\* Two tables are recorded and the creation of a third has just failed.
C15_Witness ==
    /\ Len(Created(session_state)) = 2
    /\ \E i \in CreationEntries(log) : log[i].res = "error"
    /\ Pending(session_state)

\* C16: Reset All leaves st.session_state with no key, as in a new session, makes no
\* call, and leaves the connections file, buckets, policies, roles with their
\* trust policies, volumes and tables as they were.
C16_ResetClearsSessionOnly ==
    [][trigger' = "reset" =>
         /\ session_state' = EmptySession
         /\ history' = <<>>
         /\ log' = <<>>
         /\ out' = "rerun"
         /\ UNCHANGED <<page, sf_config_file, s3_buckets, iam_policies, iam_roles,
                        sf_volumes, sf_next_id, sf_tables>>]_vars

\* Reset All was pressed with a table created and recorded: the session is empty,
\* the table, the volume and the role's trust policy are still there.
C16_Witness ==
    /\ trigger = "reset"
    /\ session_state = EmptySession
    /\ DOMAIN sf_tables # {}
    /\ DOMAIN sf_volumes # {}
    /\ \E r \in DOMAIN iam_roles : iam_roles[r].trust.principal = SnowflakeUserArn

\* C17 (as stated): infrastructure_ready is set exactly when the step is 6.
C17_ReadyIffStepSix == Ready <=> StepOf(session_state) = 6

TrustOfRole == iam_roles[session_state["iam_role_name"]].trust

\* C18 (as stated): in the pass that creates the external volume the role's trust
\* policy is the placeholder (own account root, ExternalId placeholder), and after
\* the pass in which action 6 succeeds it is the pair the warehouse issued for
\* the volume.
C18_PlaceholderThenIssuedPair ==
    /\ "ok" \in Answers(log, "CREATE OR REPLACE EXTERNAL VOLUME") =>
          TrustOfRole = [principal |-> RootArn, external_id |-> Placeholder]
    /\ "ok" \in Answers(log, "update_assume_role_policy") =>
          /\ TrustOfRole.principal = sf_volumes[session_state["external_volume_name"]].ident.user
          /\ TrustOfRole.external_id = sf_volumes[session_state["external_volume_name"]].ident.ext

MaterializerOrder ==
    <<"connect", "USE DATABASE", "USE SCHEMA", "CREATE OR REPLACE ICEBERG TABLE",
      "INSERT", "SELECT COUNT", "SELECT", "list_objects_v2", "close">>
CreationCalls(lg) == SelectSeq(lg, LAMBDA e : e.act = 8)

\* C20: the calls of the table creation of a pass are, in this order, the
\* connection, USE DATABASE, USE SCHEMA, CREATE OR REPLACE ICEBERG TABLE, one INSERT,
\* SELECT COUNT, SELECT, the storage listing and the close, up to the first that
\* fails; the statements name one table; a record is appended only in a pass whose
\* storage listing succeeded.
C20_MaterializerOrder ==
    [][LET c == CreationCalls(log') IN
       /\ Len(c) <= Len(MaterializerOrder)
       /\ \A i \in 1..Len(c) :
             /\ c[i].op = MaterializerOrder[i]
             /\ i < Len(c) => c[i].res = "ok"
             /\ i \in 5..7 => c[i].arg[1] = c[4].arg[1]
       /\ Len(Created(session_state')) > Len(Created(session_state)) =>
             /\ Len(c) >= 8
             /\ c[8].res = "ok"
             /\ Created(session_state')[Len(Created(session_state'))].name[3] = c[4].arg[1]
      ]_vars

\* The INSERT failed: the table exists without rows, and no query, listing or
\* record followed.
C20_Witness ==
    /\ Len(CreationCalls(log)) = 5
    /\ CreationCalls(log)[5].res = "error"
    /\ \E t \in DOMAIN sf_tables : sf_tables[t] = 0
    /\ Created(session_state) = <<>>

\* C21: a pass in which a call of the table creation fails makes no further call,
\* appends no record, and leaves the records and the count of the tables created
\* before, and every field of the provisioning state, as they were.
C21_FailureAbortsTable ==
    [][(\E i \in CreationEntries(log') : log'[i].res = "error") =>
         /\ log'[Len(log')].res = "error"
         /\ Cardinality({i \in CreationEntries(log') : log'[i].res = "error"}) = 1
         /\ Created(session_state') = Created(session_state)
         /\ Get(session_state', "tables_created_count", 0)
                = Get(session_state, "tables_created_count", 0)
         /\ \A k \in ProvisioningFields :
               /\ Has(session_state', k) <=> Has(session_state, k)
               /\ Has(session_state, k) => session_state'[k] = session_state[k]
      ]_vars

\* With one table recorded, the INSERT of the next creation failed.
C21_Witness ==
    /\ Len(Created(session_state)) = 1
    /\ Get(session_state, "tables_created_count", 0) = 1
    /\ "error" \in Answers(log, "INSERT")
    /\ StepOf(session_state) = 6

\* C22: a pass that starts with the step at 6 and is neither Reset All nor a setup
\* submission makes no call of the six actions and leaves the step at 6.
C22_NoActionAtStepSix ==
    [][(StepOf(session_state) = 6 /\ trigger' \notin {"reset", "submit"}) =>
         /\ ActionEntries(log') = {}
         /\ StepOf(session_state') = 6
         /\ UNCHANGED <<s3_buckets, iam_policies, iam_roles, sf_volumes, sf_next_id>>
      ]_vars

\* The pass of the setup page that follows action 6: the connection profile is
\* read, no action runs, no rerun is requested.
C22_Witness ==
    /\ StepOf(session_state) = 6
    /\ page = "setup"
    /\ trigger = "pass"
    /\ "ok" \in Answers(log, "load_connection")
    /\ ActionEntries(log) = {}
    /\ out = "end"

RecordedIdentifiers ==
    {"policy_arn", "role_arn", "iam_user_arn", "external_id", "infrastructure_ready",
     "sf_conn_params"}

\* C23: a pass of the sequencer with no connections file, or with a profile name
\* the file does not hold, stops at the loader: its only call is the failed load,
\* nothing remote changes, the recorded identifiers stay, no success is recorded
\* and the step stays the one the sequencer read (the stored one; 0 when the pass
\* handled a submission).
C23_ConfigFailureHalts ==
    [][(/\ page' = "setup"
        /\ trigger' \in {"submit", "pass"}
        /\ Get(session_state', "setup_submitted", FALSE)
        /\ \/ sf_config_file = "absent"
           \/ session_state'["snowflake_connection_name"] # FileProfile)
       =>
         /\ out' = "stop"
         /\ Len(log') = 1
         /\ log'[1].op = "load_connection"
         /\ log'[1].res = "error"
         /\ StepOf(session_state') = IF trigger' = "submit" THEN 0
                                     ELSE StepOf(session_state)
         /\ \A k \in RecordedIdentifiers :
               /\ Has(session_state', k) <=> Has(session_state, k)
               /\ Has(session_state, k) => session_state'[k] = session_state[k]
         /\ UNCHANGED <<s3_buckets, iam_policies, iam_roles, sf_volumes, sf_next_id,
                        sf_tables>>
      ]_vars

\* After a run that recorded the role, the form was submitted with a profile name
\* the file does not hold: the pass stopped at the loader, the role ARN is kept.
C23_Witness ==
    /\ trigger = "submit"
    /\ "error" \in Answers(log, "load_connection")
    /\ session_state["snowflake_connection_name"] # FileProfile
    /\ Has(session_state, "role_arn")
    /\ out = "stop"

\* The Create Tables page after a complete setup, with one custom column of each
\* of the data types, some lists of several columns and the templates; the
\* INSERT succeeds or fails.
MaxSampled == 1
TypeRows ==
    {<<[name |-> <<"c">>, type |-> data_types[i]]>> : i \in DOMAIN data_types}
    \cup {<<[name |-> <<"c">>, type |-> "TIME"], [name |-> <<"d">>, type |-> "TINYINT"],
            [name |-> <<"e">>, type |-> "STRING"]>>,
          <<[name |-> <<"c">>, type |-> "REAL"], [name |-> <<>>, type |-> "DATE"],
            [name |-> <<"d">>, type |-> "TIMESTAMP_TZ"], [name |-> <<"e">>, type |-> "ARRAY"]>>}
TypeForms ==
    TableForms({<<"t">>}, {"Custom"}, TypeRows)
    \cup TableForms({<<"t">>}, {"Stock Data", "User Data", "Sales Data"},
                    {<<[name |-> <<"c">>, type |-> "VARCHAR"]>>})
TypeNext ==
    \/ TableSubmit(TypeForms, {"none", "INSERT"}, MaxSampled)
    \/ Reenter({"none"}, {"none"}, MaxSampled)

TypeSpec == TableInit /\ [][TypeNext]_vars

\* The five literals, row by row, of each class of types.
ClassLiterals(type) ==
    CASE type \in {"VARCHAR", "STRING", "TEXT"} ->
           <<"'Sample_1'", "'Sample_2'", "'Sample_3'", "'Sample_4'", "'Sample_5'">>
      [] type \in {"INTEGER", "BIGINT", "SMALLINT", "TINYINT"} ->
           <<"100", "101", "102", "103", "104">>
      [] type \in {"DECIMAL", "NUMERIC", "DOUBLE", "FLOAT", "REAL"} ->
           <<"100.5", "101.5", "102.5", "103.5", "104.5">>
      [] type = "BOOLEAN" -> <<"TRUE", "FALSE", "TRUE", "FALSE", "TRUE">>
      [] type \in {"DATE", "DATETIME", "TIMESTAMP", "TIMESTAMP_LTZ", "TIMESTAMP_NTZ",
                   "TIMESTAMP_TZ"} ->
           <<"'2024-01-15'", "'2024-01-16'", "'2024-01-17'", "'2024-01-18'", "'2024-01-19'">>
      [] OTHER ->
           <<"'default_value'", "'default_value'", "'default_value'", "'default_value'",
             "'default_value'">>

\* C24: a table creation issues at most one INSERT; its rows are 5; each row has
\* one literal per column of the CREATE statement, in the order of the columns,
\* the literal of the column's class of types, and 'default_value' for a type of
\* no class.
C24_SampleInsert ==
    /\ Cardinality({i \in DOMAIN log : log[i].op = "INSERT"}) <= 1
    /\ \A i \in DOMAIN log :
          log[i].op = "INSERT" =>
              LET columns == CreationCalls(log)[4].arg[2]
                  rows == log[i].arg[2]
              IN  /\ Len(rows) = 5
                  /\ \A r \in 1..5 :
                        /\ Len(rows[r]) = Len(columns)
                        /\ \A c \in 1..Len(columns) :
                              rows[r][c] = ClassLiterals(columns[c].type)[r]

\* Five rows were inserted into a table of three columns whose first, of type TIME,
\* got 'default_value'.
C24_Witness ==
    /\ "ok" \in Answers(log, "INSERT")
    /\ \E i \in DOMAIN log :
          /\ log[i].op = "INSERT"
          /\ Len(log[i].arg[2][5]) = 3
          /\ log[i].arg[2][5][1] = "'default_value'"
          /\ log[i].arg[2][5][2] = "104"
    /\ \E t \in DOMAIN sf_tables : sf_tables[t] = 5

\* The step the sequencer reads in the pass that leads to the next state.
StepRead == IF trigger' = "submit" THEN 0 ELSE StepOf(session_state)

\* C25: all calls of the six actions made in a pass belong to one action, the one
\* after the step read at the top of the pass, and the pass records at most that
\* one success.
C25_OneActionPerPass ==
    [][trigger' # "reset" =>
         /\ \A i \in ActionEntries(log') : log'[i].act = StepRead + 1
         /\ StepOf(session_state') \in {StepRead, StepRead + 1}
         /\ Len(history') <= StepRead + 1
         /\ StepOf(session_state') = StepRead + 1 =>
               /\ out' = "rerun"
               /\ history'[Len(history')].act = StepRead + 1
      ]_vars

\* The pass of action 4 alone: the volume is there, the step is 4, the next
\* action waits for the rerun.
C25_Witness ==
    /\ trigger = "pass"
    /\ StepOf(session_state) = 4
    /\ "ok" \in Answers(log, "CREATE OR REPLACE EXTERNAL VOLUME")
    /\ Answers(log, "DESC EXTERNAL VOLUME") = {}
    /\ out = "rerun"

\* C26 (as stated): whenever infrastructure_ready is set, the trust policy of the
\* role names the identity and external id of the external volume that exists.
C26_TrustMatchesVolume ==
    Ready =>
        /\ session_state["external_volume_name"] \in DOMAIN sf_volumes
        /\ TrustOfRole.principal =
               sf_volumes[session_state["external_volume_name"]].ident.user
        /\ TrustOfRole.external_id =
               sf_volumes[session_state["external_volume_name"]].ident.ext

\* C27 (as stated, for the states in which all six actions are done): whenever
\* infrastructure_ready is set, a policy attached to the recorded role grants
\* access to the bucket recorded in s3_bucket_name.
C27_PolicyGrantsBucket ==
    (Ready /\ StepOf(session_state) = 6) =>
        \E p \in DOMAIN iam_policies :
            /\ iam_policies[p].arn \in iam_roles[session_state["iam_role_name"]].attached
            /\ iam_policies[p].bucket = session_state["s3_bucket_name"]

\* The connections opened and closed in a pass by one block of the code.
Opened(lg, act) == {i \in DOMAIN lg : lg[i].act = act /\ lg[i].op = "connect" /\ lg[i].res = "ok"}
Closed(lg, act) == {i \in DOMAIN lg : lg[i].act = act /\ lg[i].op = "close"}

\* C28 (as stated): every warehouse connection opened in a pass by action 4 or 5,
\* by the database lookup or by the table creation is closed in that pass.
C28_ConnectionsClosed ==
    \A act \in {4, 5, 7, 8} :
        Cardinality(Opened(log, act)) = Cardinality(Closed(log, act))

====
